---- MODULE Spec2Model ----
(***************************************************************************)
(* The PDR core generalizers of src/muz_qe/pdr_generalizers.cpp as a state *)
(* machine: one generalize call per behaviour (optionally followed by a    *)
(* second call of the bool generalizer on its own output and by a re-run   *)
(* of the inductiveness oracle on the result).                             *)
(*                                                                         *)
(* Expressions are hash-consed terms; they are modelled as tuples whose    *)
(* first component is the operator name, so structural equality of tuples  *)
(* is pointer equality of expr*.                                           *)
(***************************************************************************)
EXTENDS Integers, Sequences, FiniteSets, TLC

\* ---------------------------------------------------------------- bounds
MaxCore == 3          \* longest input core
MaxLimit == 2         \* largest m_failure_limit (0 = unlimited)
MaxCalls == 3         \* the oracle call counter saturates here

\* ------------------------------------------------------------ expressions
IntVars == {1, 2}     \* variables x, y are integer-sorted, z is real-sorted
x_var == <<"var", 1>>
y_var == <<"var", 2>>
z_var == <<"var", 3>>

mk_true == <<"true">>
mk_numeral(r) == <<"num", r>>
mk_not(e) == <<"not", e>>
mk_le(s, t) == <<"le", s, t>>
mk_ge(s, t) == <<"ge", s, t>>
mk_eq(s, t) == <<"eq", s, t>>
mk_mod(s, t) == <<"mod", s, t>>
mk_uminus(s) == <<"neg", s>>

is_not(e) == e[1] = "not"
is_le(e) == e[1] = "le"
is_ge(e) == e[1] = "ge"
is_numeral(e) == e[1] = "num"
is_int(t) == IF t[1] = "var" THEN t[2] \in IntVars
             ELSE IF t[1] = "neg" THEN t[2][2] \in IntVars
             ELSE t[1] \in {"num", "mod"}

abs(r) == IF r < 0 THEN 0 - r ELSE r

\* the elements of a vector, as obj_hashtable / ptr_vector::contains see them
set_of(s) == {s[k] : k \in 1..Len(s)}

SeqsUpTo(S, n) == UNION {[1..k -> S] : k \in 0..n}

\* ---------------------------------------------------------------- state
VARIABLES
    strategy,        \* which generalizer the search loop invokes
    pc,              \* position of the call
    ret,             \* who called the bool generalizer: "top", "multi0", "multi1"
    run,             \* 1, or 2 for the second bool run on its own output
    in_core, in_ul,  \* the arguments as they were on entry
    core, uses_level,\* the in/out arguments (core0/core1, uses_level1 in multi)
    m_failure_limit,
    i, num_failures, processed,      \* locals of the bool generalizer
    old_core, new_cores, core_exprs, mi,   \* locals of the multi generalizer
    eqs, eq,         \* locals of the arith generalizer
    cand_core,       \* new_core of the arith generalizer's last trial
    fk_Bs, fk_req, fk_ok,   \* the disjuncts, requests and answers of the Farkas call
    parent, goal, check_result,   \* the node's parent, the induction goal, the answer of smt::kernel::check
    rules, qhead,    \* the rules of the transformers; the queue position of mk_induction_goal
    base_ok, out_ok, \* the oracle's answers when re-run on input and output
    indT, indF,      \* cores check_inductive has answered true / false
    calls            \* check_inductive calls made by the current call

boolvars == <<i, num_failures, processed>>
multivars == <<old_core, new_cores, core_exprs, mi>>
arithvars == <<eqs, eq, cand_core>>
farkasvars == <<fk_Bs, fk_req, fk_ok>>
indvars == <<parent, goal, check_result, rules, qhead>>
checkvars == <<base_ok, out_ok>>
oraclevars == <<indT, indF, calls>>
vars == <<strategy, pc, ret, run, in_core, in_ul, core, uses_level,
          m_failure_limit, boolvars, multivars, arithvars, farkasvars, indvars,
          oraclevars, checkvars>>

\* ------------------------------------------------------------- inputs
GE_x == mk_ge(x_var, mk_numeral(2))
LE_x == mk_le(x_var, mk_numeral(2))

BoolLits == {mk_true, GE_x, LE_x}

NLE_x == mk_not(mk_le(x_var, mk_numeral(1)))     \* x >= 2 as not (x <= 1)
LE_y == mk_le(y_var, mk_numeral(2))
GE_z == mk_ge(z_var, mk_numeral(2))
LE_z == mk_le(z_var, mk_numeral(2))
LE_mx == mk_le(x_var, mk_numeral(0 - 2))          \* -x >= 2
GE_mx == mk_ge(x_var, mk_numeral(0 - 2))          \* -x <= 2

ArithLits == {mk_true, GE_x, LE_x, NLE_x, LE_y, GE_z, LE_z, LE_mx, GE_mx}

OR_xy == <<"or", <<GE_x, LE_y>>>>                 \* a clause left by an earlier step
OR_xyz == <<"or", <<GE_x, LE_y, GE_z>>>>

FarkasLits == {GE_x, OR_xy, OR_xyz}

Strategies == {"bool", "multi", "farkas", "arith", "induction"}

InputCores(s) ==
    IF s = "arith" THEN SeqsUpTo(ArithLits, MaxCore)
    ELSE IF s = "farkas" THEN SeqsUpTo(FarkasLits, MaxCore)
    ELSE SeqsUpTo(BoolLits, MaxCore)

NullNode == [pt |-> "null", level |-> 0]   \* n.parent() == 0
PTs == {"p", "q"}     \* the predicate transformers
MaxLevel == 3         \* highest frame level of a parent node
Parents == {NullNode} \cup {[pt |-> t, level |-> l] : t \in PTs, l \in 0..MaxLevel}

\* ------------------------------------------- pred_transformer::check_inductive
\* The oracle reads the core and answers; it is a function of the core, so an
\* answer given once is given again.  It receives uses_level by reference and
\* may leave any value in it.
check_inductive(c) == {r \in BOOLEAN : (c \in indT => r) /\ (c \in indF => ~r)}

Answered(c, r) ==
    /\ indT' = IF r THEN indT \cup {c} ELSE indT
    /\ indF' = IF r THEN indF ELSE indF \cup {c}
    /\ calls' = IF calls < MaxCalls THEN calls + 1 ELSE calls

\* ------------------------------------------- core_bool_inductive_generalizer
is_trivial_off(c) == Len(c) < 1
\* core.size() <= 1, the early return; its negation is the loop's 1 < core.size()
is_trivial(c) == Len(c) <= 1

\* while (i < core.size() && 1 < core.size() && (!m_failure_limit || num_failures <= m_failure_limit))
bool_loop_cond(c, idx, nf, limit) ==
    /\ idx < Len(c)
    /\ ~is_trivial(c)
    /\ (limit = 0 \/ nf <= limit)

scan_next(c, proc, idx) == idx + 1
\* for (i = 0; i < core.size() && processed.contains(core[i].get()); ++i);
scan_unprocessed(c, proc, idx) ==
    CHOOSE j \in 0..Len(c) :
        /\ \A k \in 0..(j-1) : c[k+1] \in proc
        /\ j = Len(c) \/ c[j+1] \notin proc

bool_trial_keep(c, idx, nf, proc, inductive) ==
    LET lit == c[idx+1]
        trial == [c EXCEPT ![idx+1] = mk_true]
    IN  IF inductive
        THEN [core |-> trial, num_failures |-> 0,
              i |-> scan_unprocessed(trial, proc, idx), processed |-> proc]
        ELSE [core |-> trial, num_failures |-> nf + 1,
              i |-> idx + 1, processed |-> proc \cup {lit}]
\* one iteration of the loop body, given the oracle's answer on the trial core
bool_trial(c, idx, nf, proc, inductive) ==
    LET lit == c[idx+1]
        trial == [c EXCEPT ![idx+1] = mk_true]
    IN  IF inductive
        THEN [core |-> trial, num_failures |-> 0,
              i |-> scan_unprocessed(trial, proc, idx), processed |-> proc]
        ELSE [core |-> c, num_failures |-> nf + 1,
              i |-> idx + 1, processed |-> proc \cup {lit}]

\* ----------------------------------------------------- core_multi_generalizer
\* core1[i] = core1.back(); core1.pop_back();
swap_remove(c, idx) ==
    LET moved == [c EXCEPT ![idx+1] = c[Len(c)]]
    IN  SubSeq(moved, 1, Len(c) - 1)

\* What the caller of m_gen does when the bool generalizer returns with core c
\* and flag ul: nothing for the search loop, lines 80-82 after the first
\* minimisation, lines 91-97 after the minimisation of a trial core; then the
\* head of the loop of line 83 up to the next call of m_gen.
multi_after(who, c, ul) ==
    LET cores1 == IF who = "multi0" THEN Append(new_cores, <<c, ul>>)
                  ELSE IF Len(c) < Len(old_core) THEN Append(new_cores, <<c, ul>>)
                  ELSE new_cores
        exprs1 == IF who = "multi0" THEN set_of(c)
                  ELSE IF Len(c) < Len(old_core) THEN core_exprs \cap set_of(c)
                  ELSE core_exprs
        from   == IF who = "multi0" THEN 0 ELSE mi + 1
        \* the literals of old_core from position `from` on that are in exprs1
        cand   == {k \in from..(Len(old_core) - 1) : old_core[k+1] \in exprs1}
        nxt    == IF cand = {} THEN Len(old_core)
                  ELSE CHOOSE k \in cand : \A k2 \in cand : k <= k2
    IN  [new_cores |-> cores1, core_exprs |-> exprs1, mi |-> nxt,
         more |-> nxt < Len(old_core),
         core |-> IF nxt < Len(old_core) THEN swap_remove(old_core, nxt) ELSE c,
         uses_level |-> IF nxt < Len(old_core) THEN in_ul ELSE ul]

\* the return of the bool generalizer to its caller
Return(c, ul) ==
    IF ret = "top"
    THEN /\ pc' = "returned"
         /\ core' = c /\ uses_level' = ul
         /\ UNCHANGED <<ret, multivars>>
    ELSE LET a == multi_after(ret, c, ul)
         IN  /\ new_cores' = a.new_cores
             /\ core_exprs' = a.core_exprs
             /\ mi' = a.mi
             /\ core' = a.core /\ uses_level' = a.uses_level
             /\ pc' = IF a.more THEN "bool_call" ELSE "returned"
             /\ ret' = IF a.more THEN "multi1" ELSE ret
             /\ UNCHANGED old_core

\* lines 37-44: the guard and the initialisation of the locals
BoolCall ==
    /\ pc = "bool_call"
    /\ IF is_trivial(core)
       THEN /\ Return(core, uses_level)
            /\ UNCHANGED boolvars
       ELSE /\ i' = 0 /\ num_failures' = 0 /\ processed' = {}
            /\ pc' = "bool_loop"
            /\ UNCHANGED <<core, uses_level, ret, multivars>>
    /\ UNCHANGED <<strategy, run, in_core, in_ul, m_failure_limit, arithvars, farkasvars, indvars, oraclevars, checkvars>>

\* lines 46-60: one iteration of the loop
BoolStep ==
    /\ pc = "bool_loop"
    /\ bool_loop_cond(core, i, num_failures, m_failure_limit)
    /\ \E inductive \in check_inductive([core EXCEPT ![i+1] = mk_true]),
          ul \in BOOLEAN :
          LET t == bool_trial(core, i, num_failures, processed, inductive)
          IN  /\ Answered([core EXCEPT ![i+1] = mk_true], inductive)
              /\ uses_level' = ul
              /\ core' = t.core
              /\ i' = t.i
              /\ num_failures' = t.num_failures
              /\ processed' = t.processed
    /\ UNCHANGED <<strategy, pc, ret, run, in_core, in_ul, m_failure_limit, multivars, arithvars, farkasvars, indvars, checkvars>>

\* lines 46, 61-63: the loop condition fails and the call returns
BoolExit ==
    /\ pc = "bool_loop"
    /\ ~bool_loop_cond(core, i, num_failures, m_failure_limit)
    /\ Return(core, uses_level)
    /\ UNCHANGED <<strategy, run, in_core, in_ul, m_failure_limit, boolvars, arithvars, farkasvars, indvars, oraclevars, checkvars>>

\* lines 75-79: old_core is declared empty, core0 is a copy of core, then m_gen
MultiCall ==
    /\ pc = "multi_call"
    /\ old_core' = <<>>
    /\ core' = in_core
    /\ uses_level' = in_ul
    /\ pc' = "bool_call"
    /\ ret' = "multi0"
    /\ UNCHANGED <<strategy, run, in_core, in_ul, m_failure_limit, boolvars,
                   new_cores, core_exprs, mi, arithvars, farkasvars, indvars, oraclevars, checkvars>>

\* --------------------------------------------- core_arith_inductive_generalizer
\* insert_bound: a negative bound is stored on the negated term with the
\* direction inverted; the record goes to m_lb or m_ub under the key abs(r)
insert_bound(is_lower, t, r, idx) ==
    IF r < 0
    THEN [lower |-> ~is_lower, term |-> mk_uminus(t), key |-> abs(r), idx |-> idx]
    ELSE [lower |-> is_lower, term |-> t, key |-> abs(r), idx |-> idx]

\* the four shapes of get_eqs' first loop; <<>> when the literal is no bound
bound_of(e, idx) ==
    IF is_not(e) /\ is_le(e[2]) /\ is_numeral(e[2][3]) /\ is_int(e[2][2])
    THEN <<insert_bound(TRUE, e[2][2], e[2][3][2] + 1, idx)>>
    ELSE IF is_not(e) /\ is_ge(e[2]) /\ is_numeral(e[2][3]) /\ is_int(e[2][2])
    THEN <<insert_bound(FALSE, e[2][2], e[2][3][2] - 1, idx)>>
    ELSE IF is_le(e) /\ is_numeral(e[3])
    THEN <<insert_bound(FALSE, e[2], e[3][2], idx)>>
    ELSE IF is_ge(e) /\ is_numeral(e[3])
    THEN <<insert_bound(TRUE, e[2], e[3][2], idx)>>
    ELSE <<>>

RECURSIVE bounds_from(_, _)
\* the records of the literals at positions idx.. of the core, in insertion order
bounds_from(c, idx) ==
    IF idx >= Len(c) THEN <<>>
    ELSE bound_of(c[idx+1], idx) \o bounds_from(c, idx + 1)

\* m_lb[r] and m_ub[r]: the (term, position) pairs stored under the key r
m_lb(c, r) == SelectSeq(bounds_from(c, 0), LAMBDA b : b.lower /\ b.key = r)
m_ub(c, r) == SelectSeq(bounds_from(c, 0), LAMBDA b : ~b.lower /\ b.key = r)
lb_keys(c) == {b.key : b \in {bb \in set_of(bounds_from(c, 0)) : bb.lower}}

\* th_rewriter on t1 = t2: over variables and their negations the equality
\* simplifies to true only for identical terms
rewrites_to_true(t1, t2) == t1 = t2

\* the inner loops of get_eqs for one key: every lower bound is paired with the
\* first upper bound on the same term
eqs_of_key(c, r) ==
    LET terms1 == m_lb(c, r)
        terms2 == m_ub(c, r)
        match(a) == {j \in 1..Len(terms2) :
                        \/ terms1[a].term = terms2[j].term
                        \/ rewrites_to_true(terms1[a].term, terms2[j].term)}
        first(a) == CHOOSE j \in match(a) : \A j2 \in match(a) : j <= j2
        RECURSIVE walk(_)
        walk(a) == IF a > Len(terms1) THEN <<>>
                   ELSE (IF match(a) = {} THEN <<>>
                         ELSE <<[m_term |-> terms1[a].term, m_value |-> r,
                                 m_i |-> terms1[a].idx,
                                 m_j |-> terms2[first(a)].idx]>>)
                        \o walk(a + 1)
    IN  IF r >= 2 /\ Len(terms2) > 0 THEN walk(1) ELSE <<>>

RECURSIVE eqs_in_order(_, _)
eqs_in_order(c, order) ==
    IF order = <<>> THEN <<>>
    ELSE eqs_of_key(c, Head(order)) \o eqs_in_order(c, Tail(order))

\* the orders in which the hash table m_lb may hand out its keys
KeyOrders(S) == {s \in [1..Cardinality(S) -> S] :
                    \A a, b \in 1..Cardinality(S) : a # b => s[a] # s[b]}

get_eqs(c, order) == eqs_in_order(c, order)

RECURSIVE substitute_alias(_, _, _)
\* [ok, result]: the literal with the numeral r replaced by the term t
substitute_alias(r, t, e) ==
    IF is_not(e) /\ substitute_alias(r, t, e[2]).ok
    THEN [ok |-> TRUE, result |-> mk_not(substitute_alias(r, t, e[2]).result)]
    ELSE IF is_le(e) /\ is_numeral(e[3]) /\ r = e[3][2]
    THEN [ok |-> TRUE, result |-> mk_le(e[2], t)]
    ELSE IF is_ge(e) /\ is_numeral(e[3]) /\ r = e[3][2]
    THEN [ok |-> TRUE, result |-> mk_ge(e[2], t)]
    ELSE [ok |-> FALSE, result |-> e]

\* lines 178-193: the candidate core of one equality
new_core(c, q) ==
    LET r == q.m_value
        t == q.m_term
        k == q.m_i
        l == q.m_j
        base == [p \in 1..Len(c) |->
                    IF (p - 1) = k \/ k = l THEN mk_true
                    ELSE substitute_alias(r, t, c[p]).result]
    IN  IF abs(r) >= 2 /\ is_int(t)
        THEN [base EXCEPT
                ![k+1] = mk_eq(mk_mod(t, mk_numeral(2)), mk_numeral(0)),
                ![l+1] = mk_le(t, mk_numeral(r))]
        ELSE base

arith_accept_always(c, cand, inductive) == cand
\* lines 203-206: the candidate replaces the core iff the oracle accepted it
arith_accept(c, cand, inductive) == IF inductive THEN cand ELSE c

\* lines 159-170: the guard, reset() and get_eqs
ArithCall ==
    /\ pc = "arith_call"
    /\ IF is_trivial(core)
       THEN pc' = "returned" /\ eqs' = <<>>
       ELSE /\ pc' = "arith_loop"
            /\ \E order \in KeyOrders(lb_keys(core)) : eqs' = get_eqs(core, order)
    /\ eq' = 0
    /\ cand_core' = <<>>
    /\ UNCHANGED <<strategy, ret, run, in_core, in_ul, core, uses_level,
                   m_failure_limit, boolvars, multivars, farkasvars, indvars,
                   oraclevars, checkvars>>

\* lines 172-207: the trial of one equality
ArithStep ==
    /\ pc = "arith_loop"
    /\ eq < Len(eqs)
    /\ LET cand == new_core(core, eqs[eq+1])
       IN  \E inductive \in check_inductive(cand), ul \in BOOLEAN :
              /\ Answered(cand, inductive)
              /\ uses_level' = ul
              /\ core' = arith_accept(core, cand, inductive)
              /\ cand_core' = cand
    /\ eq' = eq + 1
    /\ UNCHANGED <<strategy, pc, ret, run, in_core, in_ul, m_failure_limit,
                   boolvars, multivars, eqs, farkasvars, indvars, checkvars>>

\* line 172, 208: all equalities were tried
ArithExit ==
    /\ pc = "arith_loop"
    /\ eq >= Len(eqs)
    /\ pc' = "returned"
    /\ UNCHANGED <<strategy, ret, run, in_core, in_ul, core, uses_level,
                   m_failure_limit, boolvars, multivars, arithvars, farkasvars, indvars, oraclevars, checkvars>>

\* ------------------------------------------------------ core_farkas_generalizer
\* manager::mk_and, manager::get_or, manager::mk_or and datalog::flatten_and
mk_and(s) == IF Len(s) = 0 THEN mk_true
             ELSE IF Len(s) = 1 THEN s[1]
             ELSE <<"and", s>>
get_or(e) == IF e[1] = "or" THEN e[2] ELSE <<e>>
mk_or(s) == IF Len(s) = 0 THEN <<"false">>
            ELSE IF Len(s) = 1 THEN s[1]
            ELSE <<"or", s>>
RECURSIVE flatten_seq(_)
flatten_and(e) == IF e[1] = "and" THEN flatten_seq(e[2]) ELSE <<e>>
flatten_seq(s) == IF s = <<>> THEN <<>>
                  ELSE flatten_and(Head(s)) \o flatten_seq(Tail(s))

\* get_propagation_formula(m_ctx.get_pred_transformers(), n.level())
PropA == <<"prop">>

\* what farkas_learner::get_lemma_guesses can answer: failure, or lemmas
Lemma1 == mk_le(y_var, x_var)
Lemma2 == mk_ge(y_var, mk_numeral(0))
FarkasAnswers == {[ok |-> FALSE, lemmas |-> <<>>],
                  [ok |-> TRUE, lemmas |-> <<Lemma1>>],
                  [ok |-> TRUE, lemmas |-> <<Lemma1, Lemma2>>]}

\* line 128: the formula handed to get_lemma_guesses for disjunct idx.  C is
\* assigned Bs[idx] on line 127, the call is made with B.
farkas_request(B, Bs, idx) == B

farkas_uses_level_reset(change, ul) == change
\* lines 136-142: uses_level is set when a disjunct was rewritten
farkas_uses_level(change, ul) == IF change THEN TRUE ELSE ul

\* lines 115-143
Farkas ==
    /\ pc = "farkas_call"
    /\ pc' = "returned"
    /\ IF core = <<>>
       THEN /\ UNCHANGED <<core, uses_level>>
            /\ fk_Bs' = <<>> /\ fk_req' = <<>> /\ fk_ok' = <<>>
       ELSE LET B == mk_and(core)
                Bs == get_or(B)
            IN  \E guess \in [{B} \cup set_of(Bs) -> FarkasAnswers] :
                  LET req == [k \in 1..Len(Bs) |-> farkas_request(B, Bs, k - 1)]
                      ans == [k \in 1..Len(Bs) |-> guess[req[k]]]
                      Bs1 == [k \in 1..Len(Bs) |->
                                 IF ans[k].ok THEN mk_and(ans[k].lemmas) ELSE Bs[k]]
                      change == \E k \in 1..Len(Bs) : ans[k].ok
                  IN  /\ core' = IF change THEN flatten_and(mk_or(Bs1)) ELSE core
                      /\ uses_level' = farkas_uses_level(change, uses_level)
                      /\ fk_Bs' = Bs
                      /\ fk_req' = req
                      /\ fk_ok' = [k \in 1..Len(Bs) |-> ans[k].ok]
    /\ UNCHANGED <<strategy, ret, run, in_core, in_ul, m_failure_limit, boolvars,
                   multivars, arithvars, indvars, oraclevars, checkvars>>

\* --------------------------------------------------- core_induction_generalizer
\* mk_blocked_transition(pt, level): the conjunction of the negated transition
\* rules of pt at that level, kept as one term
mk_blocked_transition(pt, level) == <<"blocked", pt, level>>

\* pt.rules(): each rule is given by the predicates of its uninterpreted tail
Rules == [p |-> << <<"p", "q">>, <<>> >>, q |-> << <<"q">> >>]
\* mutually recursive tails, a predicate twice in one tail, and no tails at all
RulesMutual == [p |-> << <<"q">> >>, q |-> << <<"p">>, <<"q", "p">> >>]
RulesTwice == [p |-> << <<"p", "p">>, <<"q", "p">> >>, q |-> << <<>> >>]
RulesFlat == [p |-> << <<>> >>, q |-> << <<>> >>]
RuleSets == {Rules, RulesMutual, RulesTwice, RulesFlat}

RECURSIVE tails_of_rules(_)
\* the uninterpreted tail atoms of the rules, in the order lines 515-518 visit them
tails_of_rules(rs) == IF rs = <<>> THEN <<>> ELSE Head(rs) \o tails_of_rules(Tail(rs))

RECURSIVE enqueue_tails_unchecked(_, _, _)
enqueue_tails_unchecked(queue, tails, lvl) ==
    IF tails = <<>> THEN queue
    ELSE enqueue_tails_unchecked(Append(queue, <<Head(tails), lvl - 1>>),
                                 Tail(tails), lvl)

RECURSIVE enqueue_tails(_, _, _)
\* lines 519-528: (rt, lvl-1) is queued unless some entry is rt at level lvl-1
enqueue_tails(queue, tails, lvl) ==
    IF tails = <<>> THEN queue
    ELSE LET rt == Head(tails)
             found == \E k \in 1..Len(queue) :
                         queue[k][1] = rt /\ queue[k][2] + 1 = lvl
         IN  enqueue_tails(IF found THEN queue ELSE Append(queue, <<rt, lvl - 1>>),
                           Tail(tails), lvl)

\* the conjuncts of the goal, kept as terms: the negated goal (line 489), an
\* induction hypothesis (line 496), a transition axiom (line 507) and a frame
\* property (line 508)
mk_negated_goal(pt, level) == <<"not_property", pt, level>>
mk_hypothesis(pt, lvl) == <<"ih", pt, lvl>>
mk_transition_axiom(qt, lvl) == <<"axiom", qt, lvl>>
mk_frame_property(qt, lvl) == <<"frame", qt, lvl>>

ih_levels_with_zero(level, depth) ==
    IF level >= depth THEN [k \in 1..depth |-> level - depth + k - 1] ELSE <<>>
\* line 493: for (unsigned lvl = level-depth; lvl < level; ++lvl) if (lvl > 0).
\* When level < depth the unsigned difference wraps above level and the loop
\* body does not run.
ih_levels(level, depth) ==
    IF level >= depth
    THEN SelectSeq([k \in 1..depth |-> level - depth + k - 1], LAMBDA l : l > 0)
    ELSE <<>>

\* lines 482-500: the negated goal, the induction hypotheses and the first
\* (transformer, level) work items
mk_induction_goal(pt, level, depth) ==
    LET ih == ih_levels(level, depth)
    IN  [ih |-> ih,
         items |-> <<<<pt, level>>>> \o [k \in 1..Len(ih) |-> <<pt, ih[k]>>],
         conjs |-> <<mk_negated_goal(pt, level)>>
                   \o [k \in 1..Len(ih) |-> mk_hypothesis(pt, ih[k])]]

\* lines 503-530: the work item at qhead contributes its transition axiom and
\* frame property and, inside the depth window and above level 0, queues the
\* predicates of its rules' tails one level down
expand(g, qh, level, depth, rs) ==
    LET qt == g.items[qh+1][1]
        lvl == g.items[qh+1][2]
    IN  [ih |-> g.ih,
         items |-> IF lvl + depth < level \/ lvl = 0 THEN g.items
                   ELSE enqueue_tails(g.items, tails_of_rules(rs[qt]), lvl),
         conjs |-> g.conjs \o <<mk_transition_axiom(qt, lvl),
                                mk_frame_property(qt, lvl)>>]

InductionDepth == 2   \* line 547

induction_accepts_undef(r) == r # "l_true"
\* line 558: only an unsatisfiable induction goal rewrites the core
induction_accepts(r) == r = "l_false"

\* lines 542-550, 482-500: the parent test and the start of mk_induction_goal
InductionCall ==
    /\ pc = "induction_call"
    /\ IF parent = NullNode
       THEN pc' = "returned" /\ UNCHANGED goal
       ELSE /\ pc' = "induction_goal"
            /\ goal' = mk_induction_goal(parent.pt, parent.level, InductionDepth)
    /\ qhead' = 0
    /\ UNCHANGED <<strategy, ret, run, in_core, in_ul, core, uses_level,
                   m_failure_limit, boolvars, multivars, arithvars, farkasvars,
                   parent, rules, check_result, oraclevars, checkvars>>

\* lines 502-531: one iteration of the loop over the queue
InductionExpand ==
    /\ pc = "induction_goal"
    /\ qhead < Len(goal.items)
    /\ goal' = expand(goal, qhead, parent.level, InductionDepth, rules)
    /\ qhead' = qhead + 1
    /\ UNCHANGED <<strategy, pc, ret, run, in_core, in_ul, core, uses_level,
                   m_failure_limit, boolvars, multivars, arithvars, farkasvars,
                   parent, rules, check_result, oraclevars, checkvars>>

\* lines 502, 533-536, 551-564; smt::kernel::check answers l_true, l_false or
\* l_undef
InductionCheck ==
    /\ pc = "induction_goal"
    /\ qhead >= Len(goal.items)
    /\ pc' = "returned"
    /\ \E r \in {"l_true", "l_false", "l_undef"} :
          /\ check_result' = r
          /\ IF induction_accepts(r)
             THEN /\ core' = <<mk_not(mk_blocked_transition(parent.pt, parent.level))>>
                  /\ uses_level' = TRUE
             ELSE UNCHANGED <<core, uses_level>>
    /\ UNCHANGED <<strategy, ret, run, in_core, in_ul, m_failure_limit, boolvars,
                   multivars, arithvars, farkasvars, parent, rules, goal, qhead,
                   oraclevars, checkvars>>

\* ------------------------------------------------------------ the search loop
\* the cores a call hands back: the entries of new_cores for the multi
\* generalizer, the in/out core for the others
Outputs == IF strategy = "multi" THEN {new_cores[k][1] : k \in 1..Len(new_cores)}
           ELSE {core}

\* the oracle is run again on the original core and on every returned core
Recheck ==
    /\ pc = "returned"
    /\ pc' = "rechecked"
    /\ \E f \in [{in_core} \cup Outputs -> BOOLEAN] :
          /\ \A c \in DOMAIN f : f[c] \in check_inductive(c)
          /\ indT' = indT \cup {c \in DOMAIN f : f[c]}
          /\ indF' = indF \cup {c \in DOMAIN f : ~f[c]}
          /\ base_ok' = f[in_core]
          /\ out_ok' = \A c \in Outputs : f[c]
    /\ UNCHANGED <<strategy, ret, run, in_core, in_ul, core, uses_level,
                   m_failure_limit, boolvars, multivars, arithvars, farkasvars,
                   indvars, calls>>

\* the search loop runs the bool generalizer again on the core it returned
Rerun ==
    /\ pc = "returned" /\ strategy = "bool" /\ run = 1
    /\ run' = 2
    /\ in_core' = core /\ in_ul' = uses_level
    /\ calls' = 0
    /\ pc' = "bool_call"
    /\ UNCHANGED <<strategy, ret, core, uses_level, m_failure_limit, boolvars,
                   multivars, arithvars, farkasvars, indvars, checkvars, indT, indF>>

Init ==
    /\ strategy = "none" /\ pc = "idle"
    /\ in_core = <<>> /\ in_ul = FALSE
    /\ core = <<>> /\ uses_level = FALSE
    /\ m_failure_limit = 0
    /\ ret = "top" /\ run = 1
    /\ i = 0 /\ num_failures = 0 /\ processed = {}
    /\ old_core = <<>> /\ new_cores = <<>> /\ core_exprs = {} /\ mi = 0
    /\ eqs = <<>> /\ eq = 0 /\ cand_core = <<>>
    /\ fk_Bs = <<>> /\ fk_req = <<>> /\ fk_ok = <<>>
    /\ parent = NullNode
    /\ goal = [ih |-> <<>>, items |-> <<>>, conjs |-> <<>>]
    /\ rules = Rules /\ qhead = 0
    /\ check_result = "none"
    /\ base_ok = FALSE /\ out_ok = FALSE
    /\ indT = {} /\ indF = {} /\ calls = 0

\* the search loop hands a core and its flag to one of the generalizers
Invoke ==
    /\ pc = "idle"
    /\ \E s \in Strategies :
          /\ strategy' = s
          /\ in_core' \in InputCores(s)
          /\ m_failure_limit' \in (IF s \in {"bool", "multi"} THEN 0..MaxLimit ELSE {0})
          /\ parent' \in (IF s = "induction" THEN Parents ELSE {NullNode})
          /\ rules' \in (IF s = "induction" THEN RuleSets ELSE {Rules})
          /\ pc' = IF s = "multi" THEN "multi_call"
                   ELSE IF s = "arith" THEN "arith_call"
                   ELSE IF s = "farkas" THEN "farkas_call"
                   ELSE IF s = "induction" THEN "induction_call"
                   ELSE "bool_call"
    /\ in_ul' \in BOOLEAN
    /\ core' = in_core' /\ uses_level' = in_ul'
    /\ UNCHANGED <<ret, run, boolvars, multivars, arithvars, farkasvars, goal,
                   check_result, qhead, oraclevars, checkvars>>

Next ==
    \/ Invoke
    \/ BoolCall
    \/ BoolStep
    \/ BoolExit
    \/ MultiCall
    \/ ArithCall
    \/ ArithStep
    \/ ArithExit
    \/ Farkas
    \/ InductionCall
    \/ InductionExpand
    \/ InductionCheck
    \/ Rerun
    \/ Recheck

Spec == Init /\ [][Next]_vars

\* a call runs to completion: the loop of the bool generalizer keeps stepping
FairSpec == Init /\ [][Next]_vars /\ WF_vars(BoolStep) /\ WF_vars(BoolExit)
                 /\ WF_vars(InductionExpand) /\ WF_vars(InductionCheck)

\* ================================================================= properties
\* how often e occurs in the vector s
count(s, e) == Cardinality({k \in 1..Len(s) : s[k] = e})

\* the flags a call hands back with its cores
OutFlags == IF strategy = "multi" THEN {new_cores[k][2] : k \in 1..Len(new_cores)}
            ELSE {uses_level}

\* C1, as stated: for every strategy, when the oracle accepts the input core
\* it also accepts every core the call returns.
C1_SoundAllStrategies ==
    (pc = "rechecked" /\ base_ok) => out_ok

\* C1, amended: a core returned by the bool, multi or arith generalizer that
\* differs from the input was answered true by check_inductive during the
\* call, and the oracle run again on it succeeds.
C1_SoundOracleStrategies ==
    strategy \in {"bool", "multi", "arith"} =>
        /\ pc = "returned" => \A c \in Outputs : c # in_core => c \in indT
        /\ pc = "rechecked" => \A c \in Outputs : c # in_core => out_ok

C1_Witness ==
    /\ pc = "rechecked" /\ strategy = "arith"
    /\ core # in_core /\ base_ok /\ out_ok

\* C2, as stated: a flag that is true on entry is true on return.
C2_UsesLevelMonotone ==
    (pc = "returned" /\ in_ul) => \A f \in OutFlags : f

\* C2, amended: a flag that is true on entry is true on return of the Farkas
\* and induction generalizers, and of any call that made no check_inductive
\* call.
C2_UsesLevelKeptWithoutOracle ==
    (pc = "returned" /\ in_ul /\ (strategy \in {"farkas", "induction"} \/ calls = 0))
        => \A f \in OutFlags : f

C2_Witness ==
    /\ pc = "returned" /\ strategy = "farkas"
    /\ in_ul /\ uses_level /\ core = in_core /\ Len(fk_req) > 1

\* C3: the core the bool generalizer returns is a sub-multiset of its input.
C3_BoolOutputSubMultiset ==
    (pc = "returned" /\ strategy = "bool") =>
        \A e \in set_of(core) : count(core, e) <= count(in_core, e)

\* C4: the literal-dropping loop, once entered, is eventually left.
C4_BoolLoopExits ==
    (pc = "bool_loop") ~> (pc # "bool_loop")

C6_MultiRecordsTrialCores ==
    (/\ pc = "returned" /\ strategy = "multi"
     /\ \E k \in 1..Len(in_core) : in_core[k] \in set_of(new_cores[1][1]))
        => Len(new_cores) > 1

\* C7: a trial of the arith generalizer builds its candidate from the current
\* core; the candidate becomes the core when the oracle answered true on it,
\* and the core stays as it is when the oracle answered false.
C7_ArithAcceptance ==
    [][(pc = "arith_loop" /\ eq' = eq + 1) =>
          LET cand == new_core(core, eqs[eq+1])
          IN  \/ cand \in indT' /\ core' = cand
              \/ cand \in indF' /\ core' = core]_vars

C7_Witness ==
    /\ pc = "returned" /\ strategy = "arith" /\ eq = 2
    /\ core # in_core /\ core \in indT /\ indF # {}

\* C8: the induction generalizer rewrites the core to the single literal
\* not(blocked transition of the parent) and sets uses_level exactly when the
\* node has a parent and the check answered unsat; otherwise both are as on
\* entry.
C8_InductionOutcomes ==
    (pc = "returned" /\ strategy = "induction") =>
        IF parent # NullNode /\ check_result = "l_false"
        THEN /\ core = <<mk_not(mk_blocked_transition(parent.pt, parent.level))>>
             /\ uses_level
        ELSE core = in_core /\ uses_level = in_ul

C8_Witness ==
    /\ pc = "returned" /\ strategy = "induction"
    /\ parent # NullNode /\ check_result = "l_false"
    /\ ~in_ul /\ uses_level /\ Len(in_core) > 1 /\ Len(core) = 1

\* C9: the bool and the arith generalizer return a core of 0 or 1 literals
\* and its flag unchanged, without a check_inductive call.
C9_TrivialCoreGuards ==
    (pc = "returned" /\ strategy \in {"bool", "arith"} /\ Len(in_core) <= 1) =>
        core = in_core /\ uses_level = in_ul /\ calls = 0

C9_Witness ==
    /\ pc = "returned" /\ strategy = "bool" /\ run = 1
    /\ Len(in_core) = 1 /\ calls = 0

\* C10: the request issued for disjunct Bs[i] has that disjunct as its target.
C10_FarkasTargetsDisjunct ==
    (pc = "returned" /\ strategy = "farkas") =>
        \A k \in 1..Len(fk_req) : fk_req[k] = fk_Bs[k]

\* C11: in the candidate core of an equality (term, value r, positions k and
\* l), positions k and l both hold true when the term is not integer-sorted or
\* |r| < 2, and hold `term mod 2 == 0` and `term <= r` otherwise.
C11_CandidatePositions ==
    (strategy = "arith" /\ eq > 0) =>
        LET q == eqs[eq]
        IN  IF abs(q.m_value) >= 2 /\ is_int(q.m_term)
            THEN /\ cand_core[q.m_i + 1] =
                        mk_eq(mk_mod(q.m_term, mk_numeral(2)), mk_numeral(0))
                 /\ cand_core[q.m_j + 1] = mk_le(q.m_term, mk_numeral(q.m_value))
            ELSE /\ cand_core[q.m_i + 1] = mk_true
                 /\ cand_core[q.m_j + 1] = mk_true

\* the state in which the induction goal of the current call is being built or
\* has been built
GoalBuilt ==
    strategy = "induction" /\ parent # NullNode /\ pc \in {"induction_goal", "returned"}

hypotheses(conjs) == {k \in 1..Len(conjs) : conjs[k][1] = "ih"}

\* C12 as stated: for a parent at level L >= 2 the goal has exactly one
\* induction-hypothesis conjunct and a (parent transformer, lvl) work item for
\* each level lvl with L-2 <= lvl < L, level 0 included when L = 2.
C12_IHWindowFull ==
    (GoalBuilt /\ parent.level >= 2) =>
        \A lvl \in (parent.level - InductionDepth)..(parent.level - 1) :
            /\ count(goal.conjs, mk_hypothesis(parent.pt, lvl)) = 1
            /\ <<parent.pt, lvl>> \in set_of(goal.items)

\* C12 amended: for a parent at level L >= 2 the goal has exactly one
\* induction-hypothesis conjunct, and a (parent transformer, lvl) work item
\* queued right after the goal's own item, for each level lvl with
\* L-2 <= lvl < L and lvl > 0; it has no hypothesis for level 0 or for any
\* level outside the window, so L = 2 yields the single hypothesis of level 1.
C12_IHWindowPositive ==
    (GoalBuilt /\ parent.level >= 2) =>
        LET L == parent.level
            window == {lvl \in (L - InductionDepth)..(L - 1) : lvl > 0}
        IN  /\ \A lvl \in window :
                  /\ count(goal.conjs, mk_hypothesis(parent.pt, lvl)) = 1
                  /\ \E n \in 2..(Cardinality(window) + 1) :
                        goal.items[n] = <<parent.pt, lvl>>
            /\ \A k \in hypotheses(goal.conjs) :
                  /\ goal.conjs[k][2] = parent.pt
                  /\ goal.conjs[k][3] \in window
            /\ count(goal.conjs, mk_hypothesis(parent.pt, 0)) = 0

C12_Witness ==
    /\ GoalBuilt /\ pc = "returned" /\ parent.level = 2
    /\ goal.ih = <<1>>
    /\ goal.conjs[2] = mk_hypothesis(parent.pt, 1)
    /\ Cardinality(hypotheses(goal.conjs)) = 1

\* no (transformer, level) pair is queued twice
NoDuplicateItems ==
    \A a, b \in 1..Len(goal.items) : a # b => goal.items[a] # goal.items[b]

\* an item added by expansion is a tail predicate, one level down, of an item
\* already taken from the queue whose level is above 0 and inside the window
ItemsComeFromTails ==
    \A n \in (Len(goal.ih) + 2)..Len(goal.items) :
        \E m \in 1..qhead :
            /\ m < n
            /\ goal.items[m][2] = goal.items[n][2] + 1
            /\ goal.items[m][2] > 0
            /\ goal.items[m][2] + InductionDepth >= parent.level
            /\ goal.items[n][1] \in set_of(tails_of_rules(rules[goal.items[m][1]]))

\* the items taken from the queue have their transition axiom and their frame
\* property once each, the others not yet, and nothing else was added
AxiomsOncePerItem ==
    /\ qhead <= Len(goal.items)
    /\ Len(goal.conjs) = 1 + Len(goal.ih) + 2 * qhead
    /\ \A n \in 1..Len(goal.items) :
          LET qt == goal.items[n][1]
              lvl == goal.items[n][2]
              once == IF n <= qhead THEN 1 ELSE 0
          IN  /\ count(goal.conjs, mk_transition_axiom(qt, lvl)) = once
              /\ count(goal.conjs, mk_frame_property(qt, lvl)) = once

\* C13: while the queue of mk_induction_goal is expanded no (transformer,
\* level) pair is present twice, every item added by expansion is one level
\* below an item of level lvl > 0 with lvl + depth >= L, the expansion ends for
\* every rule set (self-recursive and mutually recursive tails included), and
\* each pair gets its transition axiom and frame property exactly once.
C13_WorklistClosure ==
    /\ [](GoalBuilt => NoDuplicateItems /\ ItemsComeFromTails /\ AxiomsOncePerItem)
    /\ [](GoalBuilt /\ pc = "returned" => qhead = Len(goal.items))
    /\ (pc = "induction_goal") ~> (pc = "returned")

C13_Witness ==
    /\ GoalBuilt /\ pc = "returned" /\ rules = RulesMutual /\ parent.level = 3
    /\ qhead = Len(goal.items)
    /\ Len(goal.items) > Len(goal.ih) + 3
    /\ \E n \in 1..Len(goal.items) : goal.items[n] = <<"q", 0>>

====
